---- MODULE Spec2Model ----
(***************************************************************************)
(* Model of src/src/automata.py: handle_closure, convert_to_dfa, process.  *)
(*                                                                         *)
(* Python values are represented as follows.                               *)
(*   - a str is the sequence of its characters: "ab" is <<"a", "b">>;      *)
(*     a symbol of the alphabet is a single character, written "x";        *)
(*   - a tuple or list is a sequence; `x in seq` is In(x, seq);            *)
(*   - a set built by handle_closure is a TLA+ set; a set object held by   *)
(*     convert_to_dfa is the sequence of its members in the order the      *)
(*     interpreter enumerates them, which the language leaves open: every  *)
(*     order is a possible outcome, and two set objects are equal when     *)
(*     they have the same members (SameSet);                               *)
(*   - a dict is a function from its keys;                                 *)
(*   - an automaton is the 5-tuple of load_automata, 1-indexed here:       *)
(*     <<states, alphabet, delta, initial_state, final_states>>.           *)
(***************************************************************************)
EXTENDS Integers, Sequences, FiniteSets, TLC

\* Bounds of the model.
MaxEdges == 3
MaxWordLen == 2

\* ------------------------------------------------------------------------
\* Python helpers
\* ------------------------------------------------------------------------
Range(s) == {s[i] : i \in DOMAIN s}

\* `x in s` for a tuple or list s
In(x, s) == \E i \in DOMAIN s : s[i] = x

Min(S) == CHOOSE m \in S : \A n \in S : m <= n

\* All sequences over S of length at most n
SeqsUpTo(S, n) == UNION {[1..k -> S] : k \in 0..n}

\* The orders in which the members of a set object may be enumerated
Orders(S) == {f \in [1..Cardinality(S) -> S] : Range(f) = S}

\* Equality of two set objects
SameSet(s, t) == Range(s) = Range(t)

\* `s in lst` for a set object s and a list of set objects
InSets(s, lst) == \E i \in DOMAIN lst : SameSet(lst[i], s)

RECURSIVE Concat(_, _)
Concat(strs, i) ==
    IF i > Len(strs) THEN <<>> ELSE strs[i] \o Concat(strs, i + 1)

\* ''.join(s): the members' characters, in the order s enumerates them
Join(s) == Concat(s, 1)

\* The epsilon marker
Epsilon == "&"

\* ------------------------------------------------------------------------
\* The inputs the model draws from
\* ------------------------------------------------------------------------
States2 == << <<"a">>, <<"b">> >>

\* "ab" is also what joining "a" and "b" gives
States3 == << <<"a", "b">>, <<"a">>, <<"b">> >>

\* The <<states, alphabet>> of the automata given to convert_to_dfa
Shapes == { <<States2, <<"x">> >>, <<States2, <<"x", "y">> >>, <<States3, <<"x">> >> }

\* Symbols a word may hold: "z" is in no alphabet
WordSymbols == {"x", "z"}

Words == SeqsUpTo(WordSymbols, MaxWordLen)

\* The subsequences of a tuple (the tuples of final states, in file order)
SubTuples(t) == { SelectSeq(t, LAMBDA x : x \in S) : S \in SUBSET Range(t) }

\* The automata load_automata returns (lines 48-63) whose rules, at most
\* MaxEdges of them, are labelled from `labels`
Automata(states, alphabet, labels) ==
    { <<states, alphabet, d, q0, f>> :
        d \in SeqsUpTo(Range(states) \X labels \X Range(states), MaxEdges),
        q0 \in Range(states),
        f \in SubTuples(states) }

VARIABLES pc, nfa, start, closure_out, words_in, result_out,
          new_states, new_delta, queue, watched, dfa

vars == <<pc, nfa, start, closure_out, words_in, result_out,
          new_states, new_delta, queue, watched, dfa>>

\* ------------------------------------------------------------------------
\* handle_closure (lines 99-111)
\* ------------------------------------------------------------------------
\* Line 107 without the test on the label: every rule is followed
IsAnyEdge(edge) == TRUE

\* The test of line 107 on edge[1]
IsEpsilonEdge(edge) == edge[2] = Epsilon

\* for edge in delta (lines 106-109), from index i on: <<closure, stack>>
RECURSIVE ClosureScan(_, _, _, _, _)
ClosureScan(i, current, delta, closure, stack) ==
    IF i > Len(delta) THEN <<closure, stack>>
    ELSE IF delta[i][1] = current /\ IsEpsilonEdge(delta[i])
            /\ delta[i][3] \notin closure
         THEN ClosureScan(i + 1, current, delta,
                          closure \cup {delta[i][3]}, Append(stack, delta[i][3]))
         ELSE ClosureScan(i + 1, current, delta, closure, stack)

\* while stack (lines 104-109)
RECURSIVE ClosureWhile(_, _, _)
ClosureWhile(closure, stack, delta) ==
    IF stack = <<>> THEN closure
    ELSE LET current == stack[Len(stack)]
             r == ClosureScan(1, current, delta, closure,
                              SubSeq(stack, 1, Len(stack) - 1))
         IN  ClosureWhile(r[1], r[2], delta)

handle_closure(state, delta) == ClosureWhile({state}, <<state>>, delta)

\* ------------------------------------------------------------------------
\* process (lines 66-97)
\* ------------------------------------------------------------------------
\* Line 89 taking the source of the rule instead of its destination
StepToSource(delta, current_state, symbol) == current_state

\* for edge in delta (lines 87-90): the first matching rule moves the state,
\* no matching rule leaves it where it is
Step(delta, current_state, symbol) ==
    LET M == {j \in DOMAIN delta :
                 delta[j][1] = current_state /\ delta[j][2] = symbol}
    IN  IF M = {} THEN current_state ELSE delta[Min(M)][3]

\* Lines 83-86 without is_valid_word = False: lines 91-95 then overwrite
\* the INVALIDA verdict
RECURSIVE ScanKeepsValid(_, _, _, _, _)
ScanKeepsValid(word, i, current_state, alphabet, delta) ==
    IF i > Len(word) THEN <<TRUE, current_state>>
    ELSE IF ~In(word[i], alphabet) THEN <<TRUE, current_state>>
    ELSE ScanKeepsValid(word, i + 1,
                        IF \E j \in DOMAIN delta :
                               delta[j][1] = current_state /\ delta[j][2] = word[i]
                        THEN delta[Min({j \in DOMAIN delta :
                                 delta[j][1] = current_state /\ delta[j][2] = word[i]})][3]
                        ELSE current_state,
                        alphabet, delta)

\* for symbol in word (lines 82-90), from index i on:
\* <<is_valid_word, current_state>>
RECURSIVE Scan(_, _, _, _, _)
Scan(word, i, current_state, alphabet, delta) ==
    IF i > Len(word) THEN <<TRUE, current_state>>
    ELSE IF ~In(word[i], alphabet) THEN <<FALSE, current_state>>
    ELSE Scan(word, i + 1, Step(delta, current_state, word[i]), alphabet, delta)

\* The value stored in result[word] (lines 80-95)
Classify(automata, word) ==
    LET r == Scan(word, 1, automata[4], automata[2], automata[3])
    IN  IF ~r[1] THEN "INVALIDA"
        ELSE IF In(r[2], automata[5]) THEN "ACEITA" ELSE "REJEITA"

\* result[k] = v
DictSet(d, k, v) ==
    [x \in (DOMAIN d) \cup {k} |-> IF x = k THEN v ELSE d[x]]

\* for word in words (line 79), from index i on
RECURSIVE ProcessWords(_, _, _, _)
ProcessWords(automata, words, i, result) ==
    IF i > Len(words) THEN result
    ELSE ProcessWords(automata, words, i + 1,
                      DictSet(result, words[i], Classify(automata, words[i])))

process(automata, words) == ProcessWords(automata, words, 1, <<>>)

\* ------------------------------------------------------------------------
\* convert_to_dfa (lines 113-182)
\* ------------------------------------------------------------------------
\* Lines 133-139: the members of new_state for one symbol
MoveSet(current, symbol, delta) ==
    UNION { handle_closure(delta[i][3], delta) :
              i \in {j \in DOMAIN delta :
                       In(delta[j][1], current) /\ delta[j][2] = symbol} }

\* for symbol in alphabet (lines 132-144), from index i on: the possible
\* <<new_delta, watched, queue>>, one for each enumeration order of the
\* set objects created
RECURSIVE ExpandSymbols(_, _, _, _, _, _, _)
ExpandSymbols(i, current, alphabet, delta, nd, w, q) ==
    IF i > Len(alphabet) THEN {<<nd, w, q>>}
    ELSE LET U == MoveSet(current, alphabet[i], delta)
         IN  IF U = {} THEN ExpandSymbols(i + 1, current, alphabet, delta, nd, w, q)
             ELSE UNION { ExpandSymbols(
                              i + 1, current, alphabet, delta,
                              Append(nd, <<current, alphabet[i], ns>>),
                              IF InSets(ns, w) THEN w ELSE Append(w, ns),
                              IF InSets(ns, w) THEN q ELSE Append(q, ns))
                          : ns \in Orders(U) }

\* Lines 146-151
FinalSets(sets, final_states) ==
    SelectSeq(sets, LAMBDA s : \E j \in DOMAIN s : In(s[j], final_states))

\* Lines 123, 153-157; ''.join of the str initial_state is initial_state
InitialSet(sets, initial_state) ==
    LET M == {i \in DOMAIN sets : In(initial_state, sets[i])}
    IN  IF M = {} THEN <<initial_state>> ELSE sets[Min(M)]

\* Lines 160-163: temp_new_state is overwritten by each label in turn
FormatStates(sets) ==
    IF sets = <<>> THEN <<>> ELSE Join(sets[Len(sets)])

\* Lines 165-170
FormatDelta(edges) ==
    [i \in DOMAIN edges |-> <<Join(edges[i][1]), edges[i][2], Join(edges[i][3])>>]

\* Lines 172-175
FormatFinals(sets) == [i \in DOMAIN sets |-> Join(sets[i])]

\* ------------------------------------------------------------------------
\* Actions
\* ------------------------------------------------------------------------
\* Lines 115-127
ConvertBegin ==
    /\ pc = "start"
    /\ \E initial_closure \in Orders(handle_closure(nfa[4], nfa[3])) :
          queue' = <<initial_closure>>
    /\ new_states' = <<>>
    /\ new_delta' = <<>>
    /\ watched' = <<>>
    /\ pc' = "loop"
    /\ UNCHANGED <<nfa, start, closure_out, words_in, result_out, dfa>>

\* One turn of while queue (lines 128-144)
ConvertLoop ==
    /\ pc = "loop"
    /\ queue # <<>>
    /\ LET current == queue[Len(queue)]
       IN  /\ new_states' = Append(new_states, current)
           /\ \E r \in ExpandSymbols(1, current, nfa[2], nfa[3], new_delta,
                                     watched, SubSeq(queue, 1, Len(queue) - 1)) :
                 /\ new_delta' = r[1]
                 /\ watched' = r[2]
                 /\ queue' = r[3]
    /\ UNCHANGED <<pc, nfa, start, closure_out, words_in, result_out, dfa>>

\* Lines 146-182.  new_states and new_delta keep the set objects; the
\* formatted values the code rebinds them to are the components of dfa.
ConvertReturn ==
    /\ pc = "loop"
    /\ queue = <<>>
    /\ dfa' = << FormatStates(new_states),
                 nfa[2],
                 FormatDelta(new_delta),
                 Join(InitialSet(new_states, nfa[4])),
                 FormatFinals(FinalSets(new_states, nfa[5])) >>
    /\ pc' = "returned"
    /\ UNCHANGED <<nfa, start, closure_out, words_in, result_out,
                   new_states, new_delta, queue, watched>>

\* process(convert_to_dfa(automata), [word])
ProcessDfa ==
    /\ pc = "returned"
    /\ \E word \in Words :
          /\ words_in' = <<word>>
          /\ result_out' = process(dfa, <<word>>)
    /\ pc' = "processed"
    /\ UNCHANGED <<nfa, start, closure_out, new_states, new_delta, queue,
                   watched, dfa>>

\* process(automata, words)
Process ==
    /\ pc = "process"
    /\ result_out' = process(nfa, words_in)
    /\ pc' = "classified"
    /\ UNCHANGED <<nfa, start, closure_out, words_in, new_states, new_delta,
                   queue, watched, dfa>>

\* handle_closure(state, delta)
Closure ==
    /\ pc = "closure"
    /\ closure_out' = handle_closure(start, nfa[3])
    /\ pc' = "closed"
    /\ UNCHANGED <<nfa, start, words_in, result_out, new_states, new_delta,
                   queue, watched, dfa>>

\* ------------------------------------------------------------------------
\* Specifications
\* ------------------------------------------------------------------------
Idle ==
    /\ start = <<>>
    /\ closure_out = {}
    /\ words_in = <<>>
    /\ result_out = <<>>
    /\ new_states = <<>>
    /\ new_delta = <<>>
    /\ queue = <<>>
    /\ watched = <<>>
    /\ dfa = <<>>

\* convert_to_dfa on an automaton with epsilon rules, then process
Init ==
    /\ pc = "start"
    /\ \E sh \in Shapes :
          nfa \in Automata(sh[1], sh[2], Range(sh[2]) \cup {Epsilon})
    /\ Idle

Next == ConvertBegin \/ ConvertLoop \/ ConvertReturn \/ ProcessDfa

Spec == Init /\ [][Next]_vars

\* process on an automaton without epsilon rules and a list of two words
InitProcess ==
    /\ pc = "process"
    /\ nfa \in Automata(States2, <<"x">>, {"x"})
    /\ start = <<>>
    /\ closure_out = {}
    /\ words_in \in Words \X Words
    /\ result_out = <<>>
    /\ new_states = <<>>
    /\ new_delta = <<>>
    /\ queue = <<>>
    /\ watched = <<>>
    /\ dfa = <<>>

NextProcess == Process

SpecProcess == InitProcess /\ [][NextProcess]_vars

\* handle_closure on a state and a list of rules
InitClosure ==
    /\ pc = "closure"
    /\ nfa \in { <<States3, <<"x">>, d, States3[1], <<>> >> :
                    d \in SeqsUpTo(Range(States3) \X {"x", Epsilon} \X Range(States3),
                                   MaxEdges) }
    /\ start \in Range(States3)
    /\ closure_out = {}
    /\ words_in = <<>>
    /\ result_out = <<>>
    /\ new_states = <<>>
    /\ new_delta = <<>>
    /\ queue = <<>>
    /\ watched = <<>>
    /\ dfa = <<>>

NextClosure == Closure

SpecClosure == InitClosure /\ [][NextClosure]_vars

\* ------------------------------------------------------------------------
\* Reference semantics the properties are stated against
\* ------------------------------------------------------------------------
Returned == pc \in {"returned", "processed"}

\* The states reachable from S by zero or more epsilon rules
RECURSIVE EpsReach(_, _)
EpsReach(S, rules) ==
    LET N == S \cup {e[3] : e \in {r \in Range(rules) : r[1] \in S /\ r[2] = Epsilon}}
    IN  IF N = S THEN S ELSE EpsReach(N, rules)

\* The destinations of the rules (q, a, *)
Succ(rules, q, a) == {e[3] : e \in {r \in Range(rules) : r[1] = q /\ r[2] = a}}

\* The states an NFA with epsilon rules may be in after word[i..], from S
RECURSIVE NfaRun(_, _, _, _)
NfaRun(rules, S, word, i) ==
    IF i > Len(word) THEN S
    ELSE NfaRun(rules,
                EpsReach(UNION {Succ(rules, q, word[i]) : q \in S}, rules),
                word, i + 1)

NfaAccepts(A, word) ==
    NfaRun(A[3], EpsReach({A[4]}, A[3]), word, 1) \cap Range(A[5]) # {}

OverAlphabet(A, word) == \A i \in DOMAIN word : word[i] \in Range(A[2])

\* At most one destination for every state and symbol, and no epsilon rule
Deterministic(A) ==
    /\ \A r \in Range(A[3]) : r[2] # Epsilon
    /\ \A q \in Range(A[1]), a \in Range(A[2]) : Cardinality(Succ(A[3], q, a)) <= 1

\* The run of a deterministic automaton on word[i..] from q: the state reached,
\* or <<"undefined">> when a rule is missing on the way
RECURSIVE DetRun(_, _, _, _)
DetRun(rules, q, word, i) ==
    IF i > Len(word) THEN <<"state", q>>
    ELSE IF Succ(rules, q, word[i]) = {} THEN <<"undefined">>
    ELSE DetRun(rules, CHOOSE t \in Succ(rules, q, word[i]) : TRUE, word, i + 1)

\* Reading word[i..] from q, following the first matching rule, the automaton
\* meets a symbol of its alphabet that has no rule from the state it is in
RECURSIVE MeetsMissingRule(_, _, _, _)
MeetsMissingRule(A, q, word, i) ==
    IF i > Len(word) \/ word[i] \notin Range(A[2]) THEN FALSE
    ELSE LET M == {j \in DOMAIN A[3] : A[3][j][1] = q /\ A[3][j][2] = word[i]}
         IN  IF M = {} THEN TRUE
             ELSE MeetsMissingRule(A, A[3][Min(M)][3], word, i + 1)

\* `label in states` for the returned states component, a str: Python looks
\* for label as a substring of it
InStates(label, states) ==
    \E k \in 0..(Len(states) - Len(label)) :
        SubSeq(states, k + 1, k + Len(label)) = label

\* Every occurrence of a State Set in convert_to_dfa's data
Occurrences ==
    Range(new_states)
    \cup {new_delta[i][1] : i \in DOMAIN new_delta}
    \cup {new_delta[i][3] : i \in DOMAIN new_delta}
    \cup {InitialSet(new_states, nfa[4])}
    \cup Range(FinalSets(new_states, nfa[5]))

\* ------------------------------------------------------------------------
\* Properties
\* ------------------------------------------------------------------------
\* C1: determinization preserves the language: a word over the alphabet is
\* classified ACEITA by process(convert_to_dfa(A), [w]) exactly when the NFA
\* with epsilon rules accepts it, and REJEITA otherwise.
C1_LanguagePreserved ==
    pc = "processed" =>
        \A w \in Range(words_in) :
            OverAlphabet(nfa, w) =>
                result_out[w] = IF NfaAccepts(nfa, w) THEN "ACEITA" ELSE "REJEITA"

\* C2: the returned transition list has no two entries with the same
\* (source, symbol) pair and no entry labelled with the epsilon marker.
C2_ReturnedDeltaDeterministic ==
    Returned =>
        /\ \A i, j \in DOMAIN dfa[3] :
              (dfa[3][i][1] = dfa[3][j][1] /\ dfa[3][i][2] = dfa[3][j][2]) => i = j
        /\ \A i \in DOMAIN dfa[3] : dfa[3][i][2] # Epsilon

\* C3: handle_closure(s, delta) returns exactly the states reachable from s by
\* zero or more epsilon rules: s is in it, every other member is the
\* destination of an epsilon rule from a member, and it is {s} when s has no
\* outgoing epsilon rule.
C3_ClosureIsEpsilonReach ==
    pc = "closed" =>
        /\ closure_out = EpsReach({start}, nfa[3])
        /\ start \in closure_out
        /\ \A t \in closure_out \ {start} :
              \E r \in Range(nfa[3]) :
                  r[1] \in closure_out /\ r[2] = Epsilon /\ r[3] = t
        /\ (~\E r \in Range(nfa[3]) : r[1] = start /\ r[2] = Epsilon)
              => closure_out = {start}

\* C3 witness: a closure taken through a cycle of epsilon rules, with a
\* non-epsilon rule leaving it to a state that is kept out.
C3_Witness ==
    /\ pc = "closed"
    /\ \E r \in Range(nfa[3]) :
          r[1] \in closure_out /\ r[1] # start /\ r[2] = Epsilon /\ r[3] = start
    /\ \E r \in Range(nfa[3]) :
          r[1] \in closure_out /\ r[2] # Epsilon /\ r[3] \notin closure_out

\* C4: a word that meets a symbol of the alphabet with no rule from the
\* current state is classified REJEITA.  Stated for the words over the
\* alphabet, where no INVALIDA verdict competes with it.
C4_MissingRuleRejects ==
    pc = "classified" =>
        \A w \in Range(words_in) :
            (OverAlphabet(nfa, w) /\ MeetsMissingRule(nfa, nfa[4], w, 1))
                => result_out[w] = "REJEITA"

\* C5: the keys of the result are exactly the input words, each mapped to one
\* of ACEITA, REJEITA, INVALIDA, and to INVALIDA exactly when the word has a
\* symbol outside the alphabet.
C5_ClassificationComplete ==
    pc = "classified" =>
        /\ DOMAIN result_out = Range(words_in)
        /\ \A w \in Range(words_in) :
              /\ result_out[w] \in {"ACEITA", "REJEITA", "INVALIDA"}
              /\ result_out[w] = "INVALIDA" <=> ~OverAlphabet(nfa, w)

\* C5 witness: two different words, one with a symbol outside the alphabet
\* followed by a symbol of the alphabet, the other over the alphabet.
C5_Witness ==
    /\ pc = "classified"
    /\ Len(words_in) = 2
    /\ Len(words_in[1]) = 2
    /\ words_in[1][1] \notin Range(nfa[2])
    /\ words_in[1][2] \in Range(nfa[2])
    /\ result_out[words_in[1]] = "INVALIDA"
    /\ words_in[2] # <<>>
    /\ result_out[words_in[2]] # "INVALIDA"

\* C6: on a deterministic automaton, a word over the alphabet whose run has a
\* rule at every step is ACEITA if the state reached is final and REJEITA
\* otherwise; the empty word is ACEITA exactly when the initial state is final.
C6_DefinedRunClassified ==
    (pc = "classified" /\ Deterministic(nfa)) =>
        \A w \in Range(words_in) :
            LET run == DetRun(nfa[3], nfa[4], w, 1)
            IN  (OverAlphabet(nfa, w) /\ run[1] = "state") =>
                    result_out[w] = IF run[2] \in Range(nfa[5])
                                    THEN "ACEITA" ELSE "REJEITA"

\* C6 witness: a two-symbol word whose run leaves the initial state and is
\* accepted, next to the empty word, rejected since the initial state is not
\* final.
C6_Witness ==
    /\ pc = "classified"
    /\ Deterministic(nfa)
    /\ Len(words_in[1]) = 2
    /\ OverAlphabet(nfa, words_in[1])
    /\ DetRun(nfa[3], nfa[4], words_in[1], 1)[1] = "state"
    /\ DetRun(nfa[3], nfa[4], words_in[1], 1)[2] # nfa[4]
    /\ result_out[words_in[1]] = "ACEITA"
    /\ words_in[2] = <<>>
    /\ result_out[words_in[2]] = "REJEITA"

\* C7: the returned states component holds the label of every materialized
\* State Set, and the ends of every returned transition, the returned initial
\* state and every returned final state are members of it.
C7_ReturnedStatesCoverLabels ==
    Returned =>
        /\ \A i \in DOMAIN new_states : InStates(Join(new_states[i]), dfa[1])
        /\ \A i \in DOMAIN dfa[3] :
              InStates(dfa[3][i][1], dfa[1]) /\ InStates(dfa[3][i][3], dfa[1])
        /\ InStates(dfa[4], dfa[1])
        /\ \A i \in DOMAIN dfa[5] : InStates(dfa[5][i], dfa[1])

\* C8: the label of a State Set depends only on its contents: occurrences of
\* the same set get the same label, and different sets get different labels.
C8_LabelsCanonical ==
    Returned =>
        \A s, t \in Occurrences : SameSet(s, t) <=> Join(s) = Join(t)

\* C9: no State Set is popped and appended to new_states twice.
C9_ExpandedOnce ==
    \A i, j \in DOMAIN new_states :
        SameSet(new_states[i], new_states[j]) => i = j

\* C10: a materialized State Set is a final state of the returned automaton
\* exactly when it has a final state of the input among its members, and the
\* returned initial state is final exactly when the epsilon closure of the
\* input's initial state has one.
C10_FinalIffHasFinalMember ==
    Returned =>
        /\ \A i \in DOMAIN new_states :
              In(Join(new_states[i]), dfa[5])
                  <=> (Range(new_states[i]) \cap Range(nfa[5]) # {})
        /\ In(dfa[4], dfa[5])
              <=> (EpsReach({nfa[4]}, nfa[3]) \cap Range(nfa[5]) # {})

====
